---- MODULE Spec2Model ----
(***************************************************************************)
(* Model of apollo.py: the dispatch-and-launch subsystem (cmd_open and the *)
(* runtime adapters), the config store (load_config / save_config), the    *)
(* type detector (detect_type) and the commands that touch the same        *)
(* persisted state (cmd_add, cmd_conf / edit_config_interactive,           *)
(* cmd_remove).                                                            *)
(*                                                                         *)
(* Text is modelled as a sequence of tokens.  A token is either a single   *)
(* character that the code treats specially (space, the two quote          *)
(* characters, '=', '#', the JSON punctuation, the backslash) or an opaque *)
(* run of ordinary characters ("A", "/h/", ".exe").  A config file is the  *)
(* sequence of its lines; no token contains a line break, so               *)
(* '\n'.join(lines) and iteration over the lines of the file are inverse   *)
(* to each other on the texts of this model.                               *)
(***************************************************************************)
EXTENDS Integers, Sequences, FiniteSets, TLC

----------------------------------------------------------------------------
(* Text helpers                                                            *)

DQ == "\""
SQ == "'"
BS == "\\"
SP == " "

QuoteChars == {DQ, SQ}
WhiteChars == {SP}

MinOf(S) == CHOOSE x \in S : \A y \in S : x <= y
MaxOf(S) == CHOOSE x \in S : \A y \in S : y <= x

\* str.strip(chars): drop every leading and trailing token that is in C.
StripSet(s, C) ==
    LET keep == {i \in 1..Len(s) : s[i] \notin C}
    IN  IF keep = {} THEN <<>> ELSE SubSeq(s, MinOf(keep), MaxOf(keep))

StartsWith(s, p) == Len(s) >= Len(p) /\ SubSeq(s, 1, Len(p)) = p
EndsWith(s, p) == Len(s) >= Len(p) /\ SubSeq(s, Len(s) - Len(p) + 1, Len(s)) = p

\* str.replace("'", '"')
ReplaceSQ(s) == [i \in 1..Len(s) |-> IF s[i] = SQ THEN DQ ELSE s[i]]

----------------------------------------------------------------------------
(* Python values held in a config dict                                     *)

S(s) == [t |-> "str", v |-> s]
M(m) == [t |-> "map", v |-> m]      \* dict, kept as a sequence of <<k, v>> in insertion order
L(l) == [t |-> "list", v |-> l]     \* list of strings
None == [t |-> "none", v |-> <<>>]

\* bool(x): None, "", {} and [] are false
Truthy(x) == x.t # "none" /\ x.v # <<>>

\* f"{x}" for the values that reach a scalar line (strings and None)
Fmt(x) == IF x.t = "none" THEN <<"None">> ELSE x.v

Has(c, k) == k \in DOMAIN c
Get(c, k, d) == IF k \in DOMAIN c THEN c[k] ELSE d
Put(c, k, x) == [y \in (DOMAIN c) \cup {k} |-> IF y = k THEN x ELSE c[y]]

\* dict assignment m[k] = v on the insertion-ordered representation
MapSet(m, k, v) ==
    IF \E i \in 1..Len(m) : m[i][1] = k
    THEN [i \in 1..Len(m) |-> IF m[i][1] = k THEN <<k, v>> ELSE m[i]]
    ELSE Append(m, <<k, v>>)

MapHas(m, k) == \E i \in 1..Len(m) : m[i][1] = k

\* del m[k]
RECURSIVE MapDel(_, _)
MapDel(m, k) ==
    IF m = <<>> THEN <<>>
    ELSE IF Head(m)[1] = k THEN MapDel(Tail(m), k)
    ELSE <<Head(m)>> \o MapDel(Tail(m), k)

\* list.pop(idx) with a 0-based idx
ListPop(l, idx) == [i \in 1..(Len(l) - 1) |-> IF i <= idx THEN l[i] ELSE l[i + 1]]

----------------------------------------------------------------------------
(* json.dumps / json.loads on the values a config holds: strings, dicts of *)
(* string to string and lists of strings.                                  *)

\* the body of a JSON string: '"' and '\' are escaped with a backslash
RECURSIVE JEscape(_)
JEscape(s) ==
    IF s = <<>> THEN <<>>
    ELSE (IF Head(s) \in {DQ, BS} THEN <<BS, Head(s)>> ELSE <<Head(s)>>) \o JEscape(Tail(s))

JStr(s) == <<DQ>> \o JEscape(s) \o <<DQ>>

RECURSIVE JJoinPairs(_)
JJoinPairs(m) ==
    IF m = <<>> THEN <<>>
    ELSE JStr(Head(m)[1]) \o <<":", SP>> \o JStr(Head(m)[2])
         \o (IF Tail(m) = <<>> THEN <<>> ELSE <<",", SP>> \o JJoinPairs(Tail(m)))

RECURSIVE JJoinItems(_)
JJoinItems(l) ==
    IF l = <<>> THEN <<>>
    ELSE JStr(Head(l))
         \o (IF Tail(l) = <<>> THEN <<>> ELSE <<",", SP>> \o JJoinItems(Tail(l)))

\* json.dumps(x, ensure_ascii=False)
Dumps(x) ==
    CASE x.t = "map"  -> <<"{">> \o JJoinPairs(x.v) \o <<"}">>
      [] x.t = "list" -> <<"[">> \o JJoinItems(x.v) \o <<"]">>
      [] x.t = "str"  -> JStr(x.v)
      [] OTHER        -> <<"null">>

JFail == [ok |-> FALSE, val |-> <<>>, next |-> 0]
At(s, i) == IF i \in 1..Len(s) THEN s[i] ELSE ""

RECURSIVE JSkip(_, _)
JSkip(s, i) == IF At(s, i) \in WhiteChars THEN JSkip(s, i + 1) ELSE i

\* scan a string body from i (just after the opening quote) to its closing quote
RECURSIVE JScanStr(_, _, _)
JScanStr(s, i, acc) ==
    IF i > Len(s) THEN JFail
    ELSE IF s[i] = DQ THEN [ok |-> TRUE, val |-> acc, next |-> i + 1]
    ELSE IF s[i] = BS
         THEN IF At(s, i + 1) \in {DQ, BS}
              THEN JScanStr(s, i + 2, Append(acc, s[i + 1]))
              ELSE JFail
    ELSE JScanStr(s, i + 1, Append(acc, s[i]))

JString(s, i) == IF At(s, i) = DQ THEN JScanStr(s, i + 1, <<>>) ELSE JFail

\* members of an object, i at the first key
RECURSIVE JPairs(_, _, _)
JPairs(s, i, acc) ==
    LET k == JString(s, i)
        c == JSkip(s, k.next)
        v == JString(s, JSkip(s, c + 1))
        e == JSkip(s, v.next)
    IN  IF ~k.ok \/ At(s, c) # ":" \/ ~v.ok THEN JFail
        ELSE IF At(s, e) = "," THEN JPairs(s, JSkip(s, e + 1), MapSet(acc, k.val, v.val))
        ELSE IF At(s, e) = "}" THEN [ok |-> TRUE, val |-> MapSet(acc, k.val, v.val), next |-> e + 1]
        ELSE JFail

\* elements of an array, i at the first element
RECURSIVE JItems(_, _, _)
JItems(s, i, acc) ==
    LET v == JString(s, i)
        e == JSkip(s, v.next)
    IN  IF ~v.ok THEN JFail
        ELSE IF At(s, e) = "," THEN JItems(s, JSkip(s, e + 1), Append(acc, v.val))
        ELSE IF At(s, e) = "]" THEN [ok |-> TRUE, val |-> Append(acc, v.val), next |-> e + 1]
        ELSE JFail

\* json.loads(text): ok = FALSE stands for the raised JSONDecodeError
Loads(s) ==
    LET i == JSkip(s, 1)
        r == CASE At(s, i) = "{" ->
                    (IF At(s, JSkip(s, i + 1)) = "}"
                     THEN [ok |-> TRUE, val |-> <<>>, next |-> JSkip(s, i + 1) + 1]
                     ELSE JPairs(s, JSkip(s, i + 1), <<>>))
               [] At(s, i) = "[" ->
                    (IF At(s, JSkip(s, i + 1)) = "]"
                     THEN [ok |-> TRUE, val |-> <<>>, next |-> JSkip(s, i + 1) + 1]
                     ELSE JItems(s, JSkip(s, i + 1), <<>>))
               [] At(s, i) = DQ -> JString(s, i)
               [] OTHER -> JFail
        t == IF At(s, i) = "{" THEN "map" ELSE IF At(s, i) = "[" THEN "list" ELSE "str"
    IN  IF r.ok /\ JSkip(s, r.next) = Len(s) + 1
        THEN [ok |-> TRUE, val |-> [t |-> t, v |-> r.val]]
        ELSE [ok |-> FALSE, val |-> None]

----------------------------------------------------------------------------
(* Config store                                                            *)

VERSION == <<"2.1.0">>

kName == <<"name">>
kType == <<"type">>
kPath == <<"path">>
kDesc == <<"description">>
kEnv  == <<"environment">>
kMounts == <<"mounts">>
kNet  == <<"network">>
kArgs == <<"arguments">>
kWd   == <<"working_dir">>

\* the record load_config returns when no file exists
DefaultConfig(app_name) ==
    (kName :> S(app_name)) @@ (kType :> S(<<"unknown">>)) @@ (kPath :> S(<<>>))
    @@ (kEnv :> M(<<>>)) @@ (kNet :> S(<<"nat">>)) @@ (kMounts :> L(<<>>))
    @@ (kArgs :> S(<<>>)) @@ (kWd :> S(<<>>)) @@ (kDesc :> S(<<>>))

\* f'{key} = "{value}"'
ScalarLine(key, x) == key \o <<SP, "=", SP, DQ>> \o Fmt(x) \o <<DQ>>
\* f'{key} = {json}'
JsonLine(key, x) == key \o <<SP, "=", SP>> \o Dumps(x)

OptScalar(config, key) ==
    IF Truthy(Get(config, key, None)) THEN <<ScalarLine(key, config[key])>> ELSE <<>>
OptJson(config, key) ==
    IF Truthy(Get(config, key, None)) THEN <<JsonLine(key, config[key])>> ELSE <<>>

\* the text save_config writes to CONF_DIR/<app_name>.conf
Serialize(app_name, config) ==
    << <<"#", SP, "Config:", SP>> \o app_name,
       <<"#", SP, "Generated", SP>> \o VERSION,
       <<"#", SP, "Edit">>,
       <<>>,
       ScalarLine(kName, Get(config, kName, S(app_name))),
       ScalarLine(kType, Get(config, kType, S(<<"unknown">>))),
       ScalarLine(kPath, Get(config, kPath, S(<<>>))) >>
    \o OptScalar(config, kDesc)
    \o OptJson(config, kEnv)
    \o OptJson(config, kMounts)
    \o OptScalar(config, kNet)
    \o OptScalar(config, kArgs)
    \o OptScalar(config, kWd)

\* one line of the file applied to the dict being built
ParseLine(config, raw) ==
    LET line == StripSet(raw, WhiteChars)
        eqs  == {i \in 1..Len(line) : line[i] = "="}
        eq   == MinOf(eqs)
        key  == StripSet(SubSeq(line, 1, eq - 1), WhiteChars)
        value == StripSet(StripSet(SubSeq(line, eq + 1, Len(line)), WhiteChars), QuoteChars)
        js   == Loads(ReplaceSQ(value))
    IN  IF line = <<>> \/ line[1] = "#" \/ eqs = {} THEN config
        ELSE IF key = kEnv /\ At(value, 1) = "{"
             THEN Put(config, key, IF js.ok THEN js.val ELSE M(<<>>))
        ELSE IF key = kMounts /\ At(value, 1) = "["
             THEN Put(config, key, IF js.ok THEN js.val ELSE L(<<>>))
        ELSE Put(config, key, S(value))

RECURSIVE ParseLines(_, _)
ParseLines(config, lines) ==
    IF lines = <<>> THEN config
    ELSE ParseLines(ParseLine(config, Head(lines)), Tail(lines))

EmptyDict == [k \in {} |-> None]

\* the dict load_config builds from an existing file
Parse(file) == ParseLines(EmptyDict, file)

----------------------------------------------------------------------------
(* Paths and the filesystem                                                *)

\* tokens that end a directory component
DirToks == {"/h/", "/", "~/.apollo/apps/"}

APPS_DIR == <<"~/.apollo/apps/">>

\* str.lower() on the tokens of this model
LowerTok(t) ==
    CASE t = ".EXE" -> ".exe"
      [] t = ".APK" -> ".apk"
      [] t = "G"    -> "g"
      [] t = ".Msi" -> ".msi"
      [] t = ".DMG" -> ".dmg"
      [] t = ".App" -> ".app"
      [] t = ".PKG" -> ".pkg"
      [] t = ".Deb" -> ".deb"
      [] t = ".RPM" -> ".rpm"
      [] t = ".SH"  -> ".sh"
      [] t = ".Bash" -> ".bash"
      [] t = ".TXT" -> ".txt"
      [] OTHER      -> t

Lower(s) == [i \in 1..Len(s) |-> LowerTok(s[i])]

\* pathlib.Path(p).name: the last path component
Basename(p) ==
    LET d == {i \in 1..Len(p) : p[i] \in DirToks}
    IN  IF d = {} THEN p ELSE SubSeq(p, MaxOf(d) + 1, Len(p))

IsSuffixTok(t) ==
    t \in {".exe", ".EXE", ".msi", ".apk", ".APK", ".dmg", ".app", ".pkg",
           ".deb", ".rpm", ".sh", ".bash", ".txt"}

\* pathlib.Path(p).stem: the name without its last suffix; the suffix starts
\* at the last '.' of the name unless that '.' is the name's first character
Stem(p) ==
    LET n == Basename(p)
        dots == {i \in 2..Len(n) : IsSuffixTok(n[i])}
    IN  IF dots = {} THEN n ELSE SubSeq(n, 1, MaxOf(dots) - 1)

\* a regular file with the leading bytes hdr
File(hdr) == [dir |-> FALSE, hdr |-> hdr, xbit |-> FALSE, exe |-> FALSE]

\* a bundle directory with one entry under Contents/MacOS ("none": no entry):
\* a file without the executable bit, an executable file, or a subdirectory.
\* xbit: os.access(entry, os.X_OK) holds for the entry, which it does for a
\* directory that can be searched; exe: the entry is an executable file
Bundle(inner) ==
    [dir |-> TRUE, hdr |-> <<>>, xbit |-> inner \in {"exe", "dir"}, exe |-> inner = "exe"]

MZ  == <<"M", "Z", "0x90", "0x00">>
ELF == <<"0x7f", "E", "L", "F">>

pExe    == <<"/h/", "G", ".EXE">>
pApk    == <<"/h/", "a", ".apk">>
pApp    == <<"/h/", "m", ".app">>
pQuote  == <<"/h/", "q", SQ>>
pText   == <<"/h/", "t", ".txt">>

\* the files of the user outside ~/.apollo
HostFiles ==
    (pExe :> File(MZ)) @@ (pApk :> File(<<"P", "K", "0x03", "0x04">>))
    @@ (pApp :> Bundle("dir"))
    @@ (pQuote :> File(ELF)) @@ (pText :> File(<<"t", "e", "x", "t">>))

\* the extension table of detect_type, in the order it is tested
ExtTable ==
    << [exts |-> {".exe", ".msi"}, kind |-> <<"exe">>],
       [exts |-> {".apk"}, kind |-> <<"apk">>],
       [exts |-> {".dmg", ".app", ".pkg"}, kind |-> <<"macos">>],
       [exts |-> {".deb", ".rpm"}, kind |-> <<"linux">>],
       [exts |-> {".sh", ".bash"}, kind |-> <<"script">>] >>

\* what stands for an exception that leaves detect_type
Raised == [t |-> "raise", v |-> <<>>]

\* detect_type that sniffs the magic bytes before it looks at the extension
detect_type_MagicFirst(fs, path) ==
    LET path_lower == Lower(path)
        hit == {i \in 1..Len(ExtTable) : \E e \in ExtTable[i].exts : EndsWith(path_lower, <<e>>)}
        canRead == path \in DOMAIN fs /\ ~fs[path].dir
        header == IF canRead THEN fs[path].hdr ELSE <<>>
    IN  IF canRead /\ StartsWith(header, <<"M", "Z">>) THEN S(<<"exe">>)
        ELSE IF canRead /\ StartsWith(header, ELF) THEN S(<<"linux">>)
        ELSE IF hit # {} THEN S(ExtTable[MinOf(hit)].kind)
        ELSE None

\* detect_type without the try around the read of the header
detect_type_NoTry(fs, path) ==
    LET path_lower == Lower(path)
        hit == {i \in 1..Len(ExtTable) : \E e \in ExtTable[i].exts : EndsWith(path_lower, <<e>>)}
        canRead == path \in DOMAIN fs /\ ~fs[path].dir
        header == IF canRead THEN fs[path].hdr ELSE <<>>
    IN  IF hit # {} THEN S(ExtTable[MinOf(hit)].kind)
        ELSE IF ~canRead THEN Raised
        ELSE IF StartsWith(header, <<"M", "Z">>) THEN S(<<"exe">>)
        ELSE IF StartsWith(header, ELF) THEN S(<<"linux">>)
        ELSE None

\* detect_type(path) on the filesystem fs; None when nothing matches
detect_type(fs, path) ==
    LET path_lower == Lower(path)
        hit == {i \in 1..Len(ExtTable) : \E e \in ExtTable[i].exts : EndsWith(path_lower, <<e>>)}
        canRead == path \in DOMAIN fs /\ ~fs[path].dir
        header == IF canRead THEN SubSeq(fs[path].hdr, 1, IF Len(fs[path].hdr) < 4 THEN Len(fs[path].hdr) ELSE 4)
                  ELSE <<>>
    IN  IF hit # {} THEN S(ExtTable[MinOf(hit)].kind)
        ELSE IF canRead /\ StartsWith(header, <<"M", "Z">>) THEN S(<<"exe">>)
        ELSE IF canRead /\ StartsWith(header, ELF) THEN S(<<"linux">>)
        ELSE None

----------------------------------------------------------------------------
(* Runtime adapters.  An external tool is outside the program: what it     *)
(* answers is an input of the adapter, drawn from the outcomes the call    *)
(* can have.  "ok" is exit status 0, "nonzero" a non-zero exit status      *)
(* (CalledProcessError under check=True), "oserror" an OSError raised by   *)
(* the spawn itself (tool not found, not executable).  An OSError is drawn *)
(* for the first call an adapter makes to an executable; once a tool has   *)
(* started in a run of the adapter, its later calls start too.  An adapter *)
(* returns ret = "true" / "false", or "raise" when an exception leaves it. *)

MaxPid == 1
Pids == 1..MaxPid

\* calls made when the steps run in order and step `fail` (0: none) ends with `how`
CallLog(steps, fail, how) ==
    [i \in 1..(IF fail = 0 THEN Len(steps) ELSE fail) |->
        <<steps[i], IF i = fail THEN how ELSE "ok">>]

\* Checked without the `except subprocess.CalledProcessError` handlers
Checked_NoHandler(fail, how) ==
    IF fail = 0 THEN "true" ELSE "raise"

\* how an adapter ends when its checked step `fail` ends with `how`, as seen
\* by a handler that catches CalledProcessError only
Checked(fail, how) ==
    IF fail = 0 THEN "true" ELSE IF how = "nonzero" THEN "false" ELSE "raise"

\* the subprocess steps of setup_subsystem, all run with check=True
SetupSteps ==
    <<"lxc_image_list", "lxc_launch", "apt_update", "apt_install",
      "lxc_config_display", "lxc_config_pulse">>

StatusObs == {"running", "notrunning", "nonzero", "oserror"}
ExistObs  == {"exists", "absent", "nonzero", "badjson"}

\* subsystem_running(): "raise" when the OSError of the spawn leaves it
subsystem_running(status) ==
    CASE status = "running" -> "true"
      [] status = "oserror" -> "raise"
      [] OTHER -> "false"

\* the checked steps of start_subsystem after its existence query
StartSteps(exist) == IF exist = "exists" THEN <<"lxc_start">> ELSE SetupSteps

\* ExeSteps with the payload copied before the subsystem is brought up
ExeSteps_PushFirst(sc) ==
    <<"lxc_file_push">>
    \o (IF sc.status = "running" THEN <<>> ELSE StartSteps(sc.exist))
    \o <<"spawn_wine">>

\* the checked steps of run_exe that follow the queries
ExeSteps(sc) ==
    (IF sc.status = "running" THEN <<>> ELSE StartSteps(sc.exist))
    \o <<"lxc_file_push", "spawn_wine">>

ExeScenarios ==
    {sc \in [status : StatusObs, exist : ExistObs, fail : 0..8,
             how : {"nonzero", "oserror"}, pid : Pids] :
        /\ sc.status \in {"running", "oserror"} => sc.exist = "absent"
        /\ (sc.status = "oserror" \/ sc.exist = "badjson") => sc.fail = 0
        /\ sc.fail <= Len(ExeSteps(sc))
        /\ sc.fail = 0 => sc.how = "nonzero"
        /\ sc.fail # 0 => sc.pid = 1
        /\ sc.fail # 0 => (sc.how = "oserror" <=> ExeSteps(sc)[sc.fail] = "spawn_wine")}

\* run_exe(path, app_name, config) under the tool outcomes sc
run_exe(path, app_name, config, sc) ==
    LET q1 == << <<"lxc_list_status", sc.status>> >>
        q2 == << <<"lxc_list_exists", sc.exist>> >>
        none == [ret |-> "raise", calls |-> q1, reg |-> <<>>]
    IN  IF subsystem_running(sc.status) = "raise" THEN none
        ELSE IF subsystem_running(sc.status) = "false" /\ sc.exist = "badjson"
             THEN [ret |-> "raise", calls |-> q1 \o q2, reg |-> <<>>]
        ELSE [ret   |-> Checked(sc.fail, sc.how),
              calls |-> q1 \o (IF subsystem_running(sc.status) = "true" THEN <<>> ELSE q2)
                        \o CallLog(ExeSteps(sc), sc.fail, sc.how),
              reg   |-> IF sc.fail = 0 THEN << <<app_name, sc.pid>> >> ELSE <<>>]

ApkScenarios(session) ==
    {sc \in [which : BOOLEAN, start : {"ok", "nonzero", "already", "oserror"},
             install : {"ok", "nonzero"},
             aapt : {"pkg", "nopkg", "oserror"}, spawn : {"ok"}] :
        /\ sc.start = "already" => session
        /\ (~sc.which) => sc.start = "ok"
        /\ (~sc.which \/ sc.start # "ok") => sc.install = "ok"
        /\ (~sc.which \/ sc.start # "ok" \/ sc.install # "ok") => sc.aapt = "pkg"
        /\ (~sc.which \/ sc.start # "ok" \/ sc.install # "ok" \/ sc.aapt = "oserror")
              => sc.spawn = "ok"}

\* run_apk(path, app_name, config) under the tool outcomes sc
run_apk(path, app_name, config, sc) ==
    LET c1 == << <<"waydroid_session_start", sc.start>> >>
        c2 == c1 \o << <<"waydroid_app_install", sc.install>> >>
        c3 == c2 \o << <<"aapt_dump_badging", sc.aapt>> >>
        c4 == c3 \o << <<IF sc.aapt = "pkg" THEN "spawn_waydroid_launch"
                         ELSE "spawn_waydroid_ui", sc.spawn>> >>
    IN  IF ~sc.which THEN [ret |-> "false", calls |-> <<>>, reg |-> <<>>]
        ELSE IF sc.start # "ok"
             THEN [ret |-> IF sc.start = "oserror" THEN "raise" ELSE "false", calls |-> c1, reg |-> <<>>]
        ELSE IF sc.install # "ok"
             THEN [ret |-> "false", calls |-> c2, reg |-> <<>>]
        ELSE IF sc.aapt = "oserror" THEN [ret |-> "raise", calls |-> c3, reg |-> <<>>]
        ELSE [ret |-> "true", calls |-> c4, reg |-> <<>>]

MacScenarios == [which : BOOLEAN, spawn : {"ok", "oserror"}]

\* run_macos(path, app_name, config): every exception is caught; the first
\* entry of the bundle that passes os.access(X_OK) is handed to darling, and a
\* bundle without such an entry falls off the end of the function (None)
run_macos(fs, path, app_name, config, sc) ==
    LET isApp == EndsWith(Lower(path), <<".app">>) /\ path \in DOMAIN fs /\ fs[path].dir
        isDmg == EndsWith(Lower(path), <<".dmg">>)
        tool  == IF isApp THEN "spawn_darling_exe"
                 ELSE IF isDmg THEN "spawn_darling_hdiutil" ELSE "spawn_darling_raw"
    IN  IF ~sc.which THEN [ret |-> "false", calls |-> <<>>, reg |-> <<>>]
        ELSE IF isApp /\ ~fs[path].xbit THEN [ret |-> "false", calls |-> <<>>, reg |-> <<>>]
        ELSE [ret |-> IF sc.spawn = "ok" THEN "true" ELSE "false",
              calls |-> << <<tool, sc.spawn>> >>, reg |-> <<>>]

NativeScenarios ==
    {sc \in [chmod : {"ok", "oserror"}, spawn : {"ok", "oserror"}] :
        sc.chmod = "oserror" => sc.spawn = "ok"}

\* the linux/script branch of cmd_open: chmod and Popen outside any try
run_native(path, sc) ==
    IF sc.chmod = "oserror"
    THEN [ret |-> "raise", calls |-> << <<"chmod", "oserror">> >>, reg |-> <<>>]
    ELSE [ret |-> IF sc.spawn = "ok" THEN "true" ELSE "raise",
          calls |-> << <<"chmod", "ok">>, <<"spawn_native", sc.spawn>> >>, reg |-> <<>>]

----------------------------------------------------------------------------
(* State                                                                   *)

VARIABLES
    files,      \* the filesystem: path -> entry (host files and ~/.apollo/apps)
    confs,      \* CONF_DIR: application name -> the lines of <name>.conf
    registry,   \* ~/.apollo/running.pid: the sequence of <<name, pid>> lines
    session,    \* TRUE once a waydroid session has been started
    inv,        \* per terminal session: the local state of the running command
    ncmds       \* number of commands started so far

vars == <<files, confs, registry, session, inv, ncmds>>

MaxCmds == 3        \* commands per behaviour
MaxMenu == 1        \* menu choices per interactive editor session
NProcs  == 2        \* terminal sessions

Procs == 1..NProcs

Kinds == {<<"exe">>, <<"apk">>, <<"macos">>, <<"linux">>, <<"script">>}

Idle ==
    [cmd |-> "idle", pc |-> "Idle", target |-> <<>>, app_name |-> <<>>,
     target_path |-> <<>>, file_type |-> None, config |-> EmptyDict,
     calls |-> <<>>, trail |-> <<>>, escaped |-> FALSE, reported |-> FALSE,
     saved |-> FALSE, menu |-> 0, base |-> [found |-> FALSE, text |-> <<>>],
     missing |-> {}]

Init ==
    /\ files = HostFiles
    /\ confs = [n \in {} |-> <<>>]
    /\ registry = <<>>
    /\ session = FALSE
    /\ inv = [p \in Procs |-> Idle]
    /\ ncmds = 0

\* a file whose bytes are not valid UTF-8: reading it in text mode raises
\* UnicodeDecodeError ("0xff" is the token of such a byte)
Undecodable(file) ==
    \E i \in 1..Len(file) : \E j \in 1..Len(file[i]) : file[i][j] = "0xff"

\* load_config(app_name) on the config directory cs; the `except Exception`
\* around the read turns a failed read into the empty dict
load_config(cs, app_name) ==
    IF app_name \notin DOMAIN cs THEN DefaultConfig(app_name)
    ELSE IF Undecodable(cs[app_name]) THEN EmptyDict
    ELSE Parse(cs[app_name])

\* save_config(app_name, config): the config directory after the write
save_config(cs, app_name, config) ==
    [n \in (DOMAIN cs) \cup {app_name} |->
        IF n = app_name THEN Serialize(app_name, config) ELSE cs[n]]

\* what load_config(app_name) found on disk when it was called: kept beside
\* the loaded record to tell which version of the file a command started from
Base(cs, app_name) ==
    [found |-> app_name \in DOMAIN cs,
     text  |-> IF app_name \in DOMAIN cs THEN cs[app_name] ELSE <<>>]

Goto(l, pc) == [l EXCEPT !.pc = pc, !.trail = Append(l.trail, pc)]
Fail(l) == [Goto(l, "Failed") EXCEPT !.reported = TRUE]

----------------------------------------------------------------------------
(* cmd_open                                                                *)

Deps == {"lxc", "wine", "darling", "waydroid", "curl"}

\* ensure_deps that is content with any one of the tools
ensure_deps_Any(present) == Deps \cap present # {}

\* ensure_deps() when the tools in `present` are on the PATH
ensure_deps(present) == Deps \subseteq present

\* what the user may type as the target of open
OpenTargets == (DOMAIN HostFiles) \cup (DOMAIN confs) \cup {<<"B">>}

\* cmd_open, lines 623-628: ensure_dirs, ensure_deps
OpenBegin(p, target, present) ==
    /\ inv[p].cmd = "idle"
    /\ ncmds < MaxCmds
    /\ ncmds' = ncmds + 1
    /\ LET l == [Idle EXCEPT !.cmd = "open", !.target = target,
                             !.missing = Deps \ present]
       IN  inv' = [inv EXCEPT ![p] =
                IF ensure_deps(present) THEN Goto(l, "Resolving") ELSE Fail(l)]
    /\ UNCHANGED <<files, confs, registry, session>>

\* cmd_open, lines 630-666: resolve the target to a record and a kind
Resolve(fs, cs, l) ==
    IF l.target \notin DOMAIN fs
    THEN IF l.target \in DOMAIN cs
         THEN LET config == load_config(cs, l.target)
                  target_path == Fmt(Get(config, kPath, S(<<>>)))
                  file_type == Get(config, kType, detect_type(fs, target_path))
              IN  IF target_path = <<>> \/ target_path \notin DOMAIN fs
                  THEN Fail(l)
                  ELSE [Goto(l, "KindKnown") EXCEPT
                            !.app_name = l.target, !.target_path = target_path,
                            !.file_type = file_type,
                            !.base = Base(cs, l.target),
                            !.config = Put(config, kType, file_type)]
         ELSE Fail(l)
    ELSE LET target_path == l.target
             app_name == Stem(target_path)
             file_type == detect_type(fs, target_path)
             config == load_config(cs, app_name)
         IN  IF ~Truthy(file_type)
             THEN Fail(l)
             ELSE [Goto(l, "KindKnown") EXCEPT
                       !.app_name = app_name, !.target_path = target_path,
                       !.file_type = file_type,
                       !.base = Base(cs, app_name),
                       !.config = Put(Put(Put(config, kName, S(app_name)),
                                          kType, file_type), kPath, S(target_path))]

OpenResolve(p) ==
    /\ inv[p].cmd = "open" /\ inv[p].pc = "Resolving"
    /\ inv' = [inv EXCEPT ![p] = Resolve(files, confs, inv[p])]
    /\ UNCHANGED <<files, confs, registry, session, ncmds>>

\* Dispatch whose final `else` falls through to the launch
Dispatch_NoElse(l) == Goto(l, "Launching")

\* cmd_open, lines 670-684: pick the adapter for the kind
Dispatch(l) ==
    IF l.file_type.t = "str" /\ l.file_type.v \in Kinds
    THEN Goto(l, "Launching")
    ELSE Fail(l)

OpenDispatch(p) ==
    /\ inv[p].cmd = "open" /\ inv[p].pc = "KindKnown"
    /\ inv' = [inv EXCEPT ![p] = Dispatch(inv[p])]
    /\ UNCHANGED <<files, confs, registry, session, ncmds>>

\* Landed with a retry: a failed adapter sends the invocation back to the dispatch
Landed_Retry(l, r) ==
    LET m == [l EXCEPT !.calls = r.calls]
    IN  CASE r.ret = "true"  -> Goto(m, "Succeeded")
          [] r.ret = "false" -> Goto(m, "KindKnown")
          [] OTHER           -> [Fail(m) EXCEPT !.escaped = TRUE]

\* the state of the invocation after the adapter ended with r; an exception
\* that leaves cmd_open is caught and reported by main (lines 975-977)
Landed(l, r) ==
    LET m == [l EXCEPT !.calls = r.calls]
    IN  CASE r.ret = "true"  -> Goto(m, "Succeeded")
          [] r.ret = "false" -> Fail(m)
          [] OTHER           -> [Fail(m) EXCEPT !.escaped = TRUE]

\* the waydroid session after the calls of an adapter
SessionAfter(s, calls) ==
    s \/ \E i \in 1..Len(calls) : calls[i] = <<"waydroid_session_start", "ok">>

\* Launch that loses the write to running.pid
Launch_NoRegistry(p, r) ==
    /\ inv' = [inv EXCEPT ![p] = Landed(inv[p], r)]
    /\ registry' = registry
    /\ session' = SessionAfter(session, r.calls)
    /\ UNCHANGED <<files, confs, ncmds>>

Launch(p, r) ==
    /\ inv' = [inv EXCEPT ![p] = Landed(inv[p], r)]
    /\ registry' = registry \o r.reg
    /\ session' = SessionAfter(session, r.calls)
    /\ UNCHANGED <<files, confs, ncmds>>

\* cmd_open, lines 672-682: the adapter call
OpenLaunch(p) ==
    /\ inv[p].cmd = "open" /\ inv[p].pc = "Launching"
    /\ LET l == inv[p]
           k == l.file_type.v
       IN  \/ /\ k = <<"exe">>
              /\ \E sc \in ExeScenarios :
                    Launch(p, run_exe(l.target_path, l.app_name, l.config, sc))
           \/ /\ k = <<"apk">>
              /\ \E sc \in ApkScenarios(session) :
                    Launch(p, run_apk(l.target_path, l.app_name, l.config, sc))
           \/ /\ k = <<"macos">>
              /\ \E sc \in MacScenarios :
                    Launch(p, run_macos(files, l.target_path, l.app_name, l.config, sc))
           \/ /\ k \in {<<"linux">>, <<"script">>}
              /\ \E sc \in NativeScenarios : Launch(p, run_native(l.target_path, sc))

\* OpenFinish under a per-application lock: the save waits while another
\* terminal session works on the same application
OpenFinish_Locked(p) ==
    /\ inv[p].cmd = "open" /\ inv[p].pc = "Succeeded" /\ ~inv[p].saved
    /\ \A q \in Procs \ {p} : inv[q].app_name # inv[p].app_name
    /\ confs' = save_config(confs, inv[p].app_name, inv[p].config)
    /\ inv' = [inv EXCEPT ![p].saved = TRUE]
    /\ UNCHANGED <<files, registry, session, ncmds>>

\* OpenFinish without the `if success` test: the record is saved either way
OpenFinish_Always(p) ==
    /\ inv[p].cmd = "open" /\ inv[p].pc \in {"Succeeded", "Failed"} /\ ~inv[p].saved
    /\ inv[p].app_name # <<>>
    /\ confs' = save_config(confs, inv[p].app_name, inv[p].config)
    /\ inv' = [inv EXCEPT ![p].saved = TRUE]
    /\ UNCHANGED <<files, registry, session, ncmds>>

\* cmd_open, lines 686-689: persist the record after a successful launch
OpenFinish(p) ==
    /\ inv[p].cmd = "open" /\ inv[p].pc = "Succeeded" /\ ~inv[p].saved
    /\ confs' = save_config(confs, inv[p].app_name, inv[p].config)
    /\ inv' = [inv EXCEPT ![p].saved = TRUE]
    /\ UNCHANGED <<files, registry, session, ncmds>>

\* the command returns to the shell
Return(p) ==
    /\ \/ inv[p].cmd = "open" /\ inv[p].pc = "Failed"
       \/ inv[p].cmd = "open" /\ inv[p].pc = "Succeeded" /\ inv[p].saved
    /\ inv' = [inv EXCEPT ![p] = Idle]
    /\ UNCHANGED <<files, confs, registry, session, ncmds>>

----------------------------------------------------------------------------
(* cmd_add, cmd_remove                                                     *)

\* the description cmd_add writes; the clock reading is one opaque token
AddedAt == <<"Added", SP, "2026-01-01">>

\* what the user may pass as --name (<<>>: no --name)
AddNames == {<<>>, <<"B">>}

\* cmd_add(path, name); the early returns (missing file, unrecognised type)
\* are the guard
cmd_add(p, path, name) ==
    /\ inv[p].cmd = "idle"
    /\ ncmds < MaxCmds
    /\ path \in DOMAIN files
    /\ Truthy(detect_type(files, path))
    /\ LET app_name  == IF name # <<>> THEN name ELSE Stem(path)
           app_type  == detect_type(files, path)
           dest_path == APPS_DIR \o app_name \o <<"/">> \o Basename(path)
           config == (kName :> S(app_name)) @@ (kType :> app_type)
                     @@ (kPath :> S(dest_path)) @@ (kDesc :> S(AddedAt))
                     @@ (kEnv :> M(<<>>)) @@ (kMounts :> L(<<>>))
                     @@ (kNet :> S(<<"nat">>)) @@ (kArgs :> S(<<>>)) @@ (kWd :> S(<<>>))
       IN  /\ files' = [f \in (DOMAIN files) \cup {dest_path} |->
                           IF f = dest_path THEN files[path] ELSE files[f]]
           /\ confs' = save_config(confs, app_name, config)
    /\ ncmds' = ncmds + 1
    /\ UNCHANGED <<registry, session, inv>>

\* cmd_remove(app_name) with the answer to the confirmation prompt
cmd_remove(p, app_name, confirm) ==
    /\ inv[p].cmd = "idle"
    /\ ncmds < MaxCmds
    /\ app_name \in DOMAIN confs
    /\ ncmds' = ncmds + 1
    /\ IF confirm = "y"
       THEN /\ confs' = [n \in (DOMAIN confs) \ {app_name} |-> confs[n]]
            /\ files' = [f \in {g \in DOMAIN files :
                                   ~StartsWith(g, APPS_DIR \o app_name \o <<"/">>)} |-> files[f]]
       ELSE UNCHANGED <<confs, files>>
    /\ UNCHANGED <<registry, session, inv>>

----------------------------------------------------------------------------
(* cmd_conf                                                                *)

NetworkModes == {<<"nat">>, <<"bridge">>, <<"host">>, <<"none">>}

\* one pass of the menu loop of edit_config_interactive: choice c with the
\* answers a and b to its prompts
ApplyChoice(config, c, a, b) ==
    LET env == Get(config, kEnv, M(<<>>)).v
        mounts == Get(config, kMounts, L(<<>>)).v
    IN  CASE c = "1"  -> IF a # <<>> THEN Put(config, kName, S(a)) ELSE config
          [] c = "2"  -> Put(config, kDesc, S(a))
          [] c = "3a" -> IF a # <<>> THEN Put(config, kEnv, M(MapSet(env, a, b))) ELSE config
          [] c = "3d" -> IF MapHas(env, a) THEN Put(config, kEnv, M(MapDel(env, a))) ELSE config
          [] c = "3c" -> Put(config, kEnv, M(<<>>))
          [] c = "4"  -> Put(config, kArgs, S(a))
          [] c = "5"  -> Put(config, kWd, S(a))
          [] c = "6"  -> IF Lower(a) \in NetworkModes THEN Put(config, kNet, S(Lower(a))) ELSE config
          [] c = "7a" -> IF a # <<>> /\ b # <<>>
                         THEN Put(config, kMounts, L(Append(mounts, a \o <<":">> \o b)))
                         ELSE config
          [] c = "7d" -> IF Len(a) = 1 /\ a[1] \in {"1", "2"}
                            /\ (IF a[1] = "1" THEN 1 ELSE 2) <= Len(mounts)
                         THEN Put(config, kMounts, L(ListPop(mounts, (IF a[1] = "1" THEN 1 ELSE 2) - 1)))
                         ELSE config
          [] c = "7c" -> Put(config, kMounts, L(<<>>))
          [] OTHER    -> config

\* the menu choices and answers the user may give
MenuInputs ==
    { <<"1", <<"B">>, <<>>>>,
      <<"3a", <<"K">>, <<"v">>>>,
      <<"3c", <<>>, <<>>>>,
      <<"4", <<"-t", SP, DQ, "x", DQ>>, <<>>>>,
      <<"6", <<"host">>, <<>>>>,
      <<"7a", <<"/d">>, <<"/c">>>>,
      <<"7d", <<"1">>, <<>>>> }

\* cmd_conf with choice 1: edit_config_interactive up to its menu loop
EditBegin(p, app_name) ==
    /\ inv[p].cmd = "idle"
    /\ ncmds < MaxCmds
    /\ app_name \in DOMAIN confs
    /\ Truthy(Get(load_config(confs, app_name), kPath, None))
    /\ ncmds' = ncmds + 1
    /\ inv' = [inv EXCEPT ![p] =
                  [Idle EXCEPT !.cmd = "conf", !.pc = "Menu", !.app_name = app_name,
                               !.base = Base(confs, app_name),
                               !.config = load_config(confs, app_name)]]
    /\ UNCHANGED <<files, confs, registry, session>>

\* menu choices 1-7
EditChoice(p, in) ==
    /\ inv[p].cmd = "conf" /\ inv[p].pc = "Menu"
    /\ inv[p].menu < MaxMenu
    /\ inv' = [inv EXCEPT ![p].config = ApplyChoice(inv[p].config, in[1], in[2], in[3]),
                          ![p].menu = inv[p].menu + 1]
    /\ UNCHANGED <<files, confs, registry, session, ncmds>>

\* menu choice 9: save and leave
EditSave(p) ==
    /\ inv[p].cmd = "conf" /\ inv[p].pc = "Menu"
    /\ confs' = save_config(confs, inv[p].app_name, inv[p].config)
    /\ inv' = [inv EXCEPT ![p] = Idle]
    /\ UNCHANGED <<files, registry, session, ncmds>>

\* menu choice 0: leave without saving
EditQuit(p) ==
    /\ inv[p].cmd = "conf" /\ inv[p].pc = "Menu"
    /\ inv' = [inv EXCEPT ![p] = Idle]
    /\ UNCHANGED <<files, confs, registry, session, ncmds>>

\* what the user may do to the type line in the text editor
TextEdits == {"unknown", "drop"}

IsTypeLine(line) == StartsWith(line, kType \o <<SP, "=">>)

RECURSIVE EditTypeLine(_, _)
EditTypeLine(file, e) ==
    IF file = <<>> THEN <<>>
    ELSE (IF ~IsTypeLine(Head(file)) THEN <<Head(file)>>
          ELSE IF e = "drop" THEN <<>>
          ELSE <<ScalarLine(kType, S(<<"unknown">>))>>)
         \o EditTypeLine(Tail(file), e)

\* cmd_conf with choice 2: the user rewrites the file in $EDITOR
TextEdit(p, app_name, e) ==
    /\ inv[p].cmd = "idle"
    /\ ncmds < MaxCmds
    /\ app_name \in DOMAIN confs
    /\ ncmds' = ncmds + 1
    /\ confs' = [confs EXCEPT ![app_name] = EditTypeLine(confs[app_name], e)]
    /\ UNCHANGED <<files, registry, session, inv>>

----------------------------------------------------------------------------
(* One terminal session: commands run one after the other                  *)

DepObs == {Deps} \cup {Deps \ {d} : d \in Deps}

Step(p) ==
    \/ \E t \in OpenTargets, present \in DepObs : OpenBegin(p, t, present)
    \/ OpenResolve(p)
    \/ OpenDispatch(p)
    \/ OpenLaunch(p)
    \/ OpenFinish(p)
    \/ Return(p)
    \/ \E path \in DOMAIN HostFiles, name \in AddNames : cmd_add(p, path, name)
    \/ \E n \in DOMAIN confs, c \in {"y", "n"} : cmd_remove(p, n, c)
    \/ \E n \in DOMAIN confs : EditBegin(p, n)
    \/ \E in \in MenuInputs : EditChoice(p, in)
    \/ EditSave(p)
    \/ EditQuit(p)
    \/ \E n \in DOMAIN confs, e \in TextEdits : TextEdit(p, n, e)

Next == Step(1)

Spec == Init /\ [][Next]_vars

----------------------------------------------------------------------------
(* Properties of cmd_open                                                  *)

Range(f) == {f[i] : i \in DOMAIN f}

\* the kind of the invocation is one an adapter exists for
KindResolved(l) == l.file_type.t = "str" /\ l.file_type.v \in Kinds

\* cs2 is cs with exactly the file of app_name rewritten to hold config
WrittenUnder(cs, cs2, app_name, config) ==
    /\ DOMAIN cs2 = (DOMAIN cs) \cup {app_name}
    /\ cs2[app_name] = Serialize(app_name, config)
    /\ \A n \in (DOMAIN cs) \ {app_name} : cs2[n] = cs[n]

\* C1: an invocation of open writes the config store if and only if its
\* launch succeeded.  A step of open that changes the store is the save that
\* follows a successful launch and rewrites exactly the file of the
\* application name with the invocation's record; open returns either from
\* Succeeded with that save done, or from Failed with nothing saved and an
\* error reported.
C1_Step ==
    \A p \in Procs :
        inv[p].cmd = "open" =>
            /\ confs' # confs =>
                  /\ inv[p].pc = "Succeeded" /\ ~inv[p].saved /\ inv'[p].saved
                  /\ WrittenUnder(confs, confs', inv[p].app_name, inv[p].config)
            /\ inv'[p].cmd = "idle" =>
                  \/ inv[p].pc = "Succeeded" /\ inv[p].saved
                  \/ inv[p].pc = "Failed" /\ ~inv[p].saved /\ inv[p].reported
            /\ inv'[p].pc = "Failed" => confs' = confs /\ inv'[p].reported /\ ~inv'[p].saved

C1_WriteIffLaunched == [][C1_Step]_vars

\* C1 witness: open launched an application and its record is in the store
C1_Witness ==
    \E p \in Procs :
        /\ inv[p].cmd = "open" /\ inv[p].pc = "Succeeded" /\ inv[p].saved
        /\ inv[p].app_name \in DOMAIN confs
        /\ confs[inv[p].app_name] = Serialize(inv[p].app_name, inv[p].config)

\* C2: while the kind of an invocation of open is unknown or unresolved, no
\* adapter has been invoked and no external tool called, the invocation has
\* never been in Launching or Succeeded, and the step it takes out of
\* KindKnown ends it in Failed with the run registry untouched.
C2_State ==
    \A p \in Procs :
        (inv[p].cmd = "open" /\ ~KindResolved(inv[p])) =>
            /\ inv[p].calls = <<>>
            /\ Range(inv[p].trail) \cap {"Launching", "Succeeded"} = {}

C2_Step ==
    \A p \in Procs :
        (inv[p].cmd = "open" /\ ~KindResolved(inv[p]) /\ inv'[p] # inv[p]) =>
            /\ registry' = registry
            /\ inv[p].pc = "KindKnown" => inv'[p].pc = "Failed"
            /\ inv[p].pc = "Resolving" /\ ~KindResolved(inv'[p])
                  => inv'[p].pc \in {"Failed", "KindKnown"}

C2_UnknownKindNeverLaunches == [](C2_State) /\ [][C2_Step]_vars

\* C2 witness: open of a registered name whose stored kind is `unknown`
\* got as far as KindKnown and failed there
C2_Witness ==
    \E p \in Procs :
        /\ inv[p].cmd = "open" /\ inv[p].pc = "Failed"
        /\ inv[p].file_type = S(<<"unknown">>)
        /\ inv[p].trail = <<"Resolving", "KindKnown", "Failed">>
        /\ inv[p].calls = <<>>

Rank(pc) ==
    CASE pc = "Resolving" -> 1
      [] pc = "KindKnown" -> 2
      [] pc = "Launching" -> 3
      [] pc \in {"Succeeded", "Failed"} -> 4
      [] OTHER -> 0

\* C3: the states an invocation of open has been in form a strictly forward
\* path through Resolving, KindKnown, Launching, {Succeeded, Failed}; the
\* adapter runs only in the step that leaves Launching, so at most once; and
\* the only step a Failed invocation takes is its return, which writes
\* neither the config store nor the run registry.
C3_State ==
    \A p \in Procs :
        inv[p].cmd = "open" =>
            LET tr == inv[p].trail
            IN  /\ tr # <<>> /\ tr[Len(tr)] = inv[p].pc
                /\ \A i \in 1..(Len(tr) - 1) : Rank(tr[i]) < Rank(tr[i + 1])
                /\ \A i \in 1..Len(tr) : Rank(tr[i]) > 0
                /\ inv[p].calls # <<>> => "Launching" \in Range(tr) /\ Rank(inv[p].pc) = 4

C3_Step ==
    \A p \in Procs :
        (inv[p].cmd = "open" /\ inv'[p] # inv[p]) =>
            /\ inv'[p].calls # inv[p].calls => inv[p].pc = "Launching" \/ inv'[p].cmd = "idle"
            /\ inv[p].pc = "Failed" =>
                  inv'[p] = Idle /\ confs' = confs /\ registry' = registry /\ session' = session

C3_ForwardOnly == [](C3_State) /\ [][C3_Step]_vars

\* C3 witness: an invocation went through all four states and failed in the adapter
C3_Witness ==
    \E p \in Procs :
        /\ inv[p].cmd = "open"
        /\ inv[p].trail = <<"Resolving", "KindKnown", "Launching", "Failed">>
        /\ inv[p].calls # <<>>

Finished(l) == l.cmd = "open" /\ l.pc \in {"Succeeded", "Failed"}
IsExe(l) == l.file_type = S(<<"exe">>)

\* C4 (as claimed): no failure of an external tool leaves open as an uncaught
\* exception; every one is turned into a launch failure by the adapter.
C4_NoEscape == \A p \in Procs : ~inv[p].escaped

\* the subprocess steps of the Windows adapter whose CalledProcessError is caught
FatalSteps == {"lxc_start", "lxc_file_push"} \cup Range(SetupSteps)

NonZeroAt(l, tools) ==
    {i \in 1..Len(l.calls) : l.calls[i][1] \in tools /\ l.calls[i][2] = "nonzero"}

C6_SessionStartIdempotent ==
    \A p \in Procs :
        (Finished(inv[p]) /\ inv[p].calls # <<>>
            /\ inv[p].calls[1] = <<"waydroid_session_start", "already">>)
        => /\ Len(inv[p].calls) >= 2
           /\ inv[p].calls[2][1] = "waydroid_app_install"

IsPrefix(a, b) == Len(a) <= Len(b) /\ SubSeq(b, 1, Len(a)) = a

Launched(p) == inv[p].cmd = "open" /\ inv[p].pc = "Launching" /\ inv'[p].pc = "Succeeded"

OneEntryAdded(p) ==
    /\ Len(registry') = Len(registry) + 1
    /\ IsPrefix(registry, registry')
    /\ registry'[Len(registry')][1] = inv[p].app_name
    /\ registry'[Len(registry')][2] \in Pids

\* C7 (as claimed): every successful launch of open, whatever the kind,
\* appends exactly one name:pid entry to the run registry.
C7_Step_AnyKind == \A p \in Procs : Launched(p) => OneEntryAdded(p)

C7_EveryLaunchRegistered == [][C7_Step_AnyKind]_vars

\* C7 (amended): a successful launch of an exe-kind application appends
\* exactly one name:pid entry for it; a successful launch of any other kind
\* appends nothing; and no step of open modifies or removes an entry that is
\* already in the registry.
C7_Step_Exe ==
    \A p \in Procs :
        inv[p].cmd = "open" =>
            /\ IsPrefix(registry, registry')
            /\ IF Launched(p) /\ IsExe(inv[p]) THEN OneEntryAdded(p) ELSE registry' = registry

C7_ExeLaunchRegistered == [][C7_Step_Exe]_vars

\* C7 witness: an exe launch succeeded and its entry is the last of the registry
C7_Witness ==
    \E p \in Procs :
        /\ inv[p].cmd = "open" /\ inv[p].pc = "Succeeded" /\ IsExe(inv[p])
        /\ registry # <<>>
        /\ registry[Len(registry)][1] = inv[p].app_name

\* the text between the delimiting quotes of the last `key = "..."` line of a file
StoredScalar(file, key) ==
    LET pre == key \o <<SP, "=", SP, DQ>>
        at  == {i \in 1..Len(file) : StartsWith(file[i], pre) /\ Len(file[i]) > Len(pre)}
    IN  IF at = {} THEN <<>>
        ELSE SubSeq(file[MaxOf(at)], Len(pre) + 1, Len(file[MaxOf(at)]) - 1)

\* C8 (as claimed): no two persisted records carry the same name, and the
\* name of each record is the key of the file it is stored in.  Stated for
\* the files whose key holds no quote character, so that what refutes it is
\* the editor and not the quote stripping of load_config.
C8_NameIsKey ==
    LET plain == {n \in DOMAIN confs : Range(n) \cap QuoteChars = {}}
    IN  /\ \A n \in plain : StoredScalar(confs[n], kName) = n
        /\ \A n1, n2 \in plain :
              StoredScalar(confs[n1], kName) = StoredScalar(confs[n2], kName) => n1 = n2

\* C9 (as claimed): a step of the interactive editor, or of open given a
\* registered name, leaves the persisted path of every record unchanged.
C9_Step ==
    \A p \in Procs :
        (\/ inv[p].cmd = "conf"
         \/ inv[p].cmd = "open" /\ inv[p].target \notin DOMAIN files)
        => \A n \in (DOMAIN confs) \cap (DOMAIN confs') :
              StoredScalar(confs'[n], kPath) = StoredScalar(confs[n], kPath)

C9_PathImmutable == [][C9_Step]_vars

----------------------------------------------------------------------------
(* The config store on its own: records drawn from bounded sets are saved, *)
(* and files are loaded and saved back.                                    *)

StoreNames == {<<"A">>, <<"q", SQ>>}

StoreArgs == {<<>>, <<"-v">>, <<"-t", SP, DQ, "x", DQ>>, <<SQ, "a", SQ, SP, "b">>}
StoreEnvs == {<<>>, << <<<<"K">>, <<"v">>>> >>, << <<<<"K">>, <<"it", SQ, "s">>>> >>,
              << <<<<"K">>, <<"a", DQ, "b">>>>, <<<<"L">>, <<>>>> >>}
StoreMounts == {<<>>, << <<"/d", ":", "/c">> >>}
StorePaths == {<<>>, pExe, APPS_DIR \o <<"q", SQ, "/", "q", SQ>>}

\* the records handed to save_config
StoreRecords ==
    {(kName :> S(n)) @@ (kType :> S(k)) @@ (kPath :> S(path)) @@ (kDesc :> S(d))
        @@ (kEnv :> M(e)) @@ (kMounts :> L(m)) @@ (kNet :> S(<<"nat">>))
        @@ (kArgs :> S(a)) @@ (kWd :> S(<<>>)) :
        n \in StoreNames, k \in {<<"exe">>, <<"unknown">>}, path \in StorePaths,
        d \in {<<>>, AddedAt}, e \in StoreEnvs, m \in StoreMounts, a \in StoreArgs}

\* save_config(app_name, config)
StoreSave(app_name, config) ==
    /\ confs' = save_config(confs, app_name, config)
    /\ UNCHANGED <<files, registry, session, inv, ncmds>>

\* save_config(app_name, load_config(app_name))
StoreResave(app_name) ==
    /\ app_name \in DOMAIN confs
    /\ confs' = save_config(confs, app_name, load_config(confs, app_name))
    /\ UNCHANGED <<files, registry, session, inv, ncmds>>

StoreNext ==
    \/ \E n \in {<<"A">>}, c \in StoreRecords : StoreSave(n, c)
    \/ \E n \in {<<"A">>} : StoreResave(n)

SpecStore == Init /\ [][StoreNext]_vars

\* the JSON text of the `key = ...` line of a file, <<>> when there is none
StoredJson(file, key) ==
    LET pre == key \o <<SP, "=", SP>>
        at  == {i \in 1..Len(file) : StartsWith(file[i], pre)}
    IN  IF at = {} THEN <<>>
        ELSE SubSeq(file[MaxOf(at)], Len(pre) + 1, Len(file[MaxOf(at)]))

\* no structured field of the file loses information when the file is loaded
NonLossy(file) ==
    \A key \in {kEnv, kMounts} :
        StoredJson(file, key) # <<>> =>
            /\ Has(Parse(file), key)
            /\ Dumps(Parse(file)[key]) = StoredJson(file, key)

\* C10 (as claimed): for a file written by save_config whose structured
\* fields load without loss, saving the loaded record again leaves the file
\* byte for byte as it was.
C10_RoundTrip ==
    \A n \in DOMAIN confs :
        NonLossy(confs[n]) => Serialize(n, load_config(confs, n)) = confs[n]

----------------------------------------------------------------------------
(* load_config on its own: config files as a text editor may leave them,   *)
(* loaded under every name.                                                *)

\* "x251" is a run of 251 characters: with ".conf" appended the file name is
\* longer than NAME_MAX (255) and stat() on it fails with ENAMETOOLONG
TooLong(app_name) == \E i \in 1..Len(app_name) : app_name[i] = "x251"

\* pathlib.Path.exists() on a name stat() rejects: the pathlib of Python 3.8
\* to 3.12 re-raises the OSError, later ones answer False
ExistsBuilds == {"reraise", "false"}

\* conf_file.exists(), line 362, outside the try of load_config
conf_exists(cs, app_name, build) ==
    IF TooLong(app_name) THEN (IF build = "reraise" THEN "raise" ELSE "false")
    ELSE IF app_name \in DOMAIN cs THEN "true" ELSE "false"

\* a call of load_config(app_name): raised when an exception leaves it
load_call(cs, app_name, build) ==
    IF conf_exists(cs, app_name, build) = "raise"
    THEN [raised |-> TRUE, val |-> EmptyDict]
    ELSE [raised |-> FALSE, val |-> load_config(cs, app_name)]

MaxLines == 2       \* lines per hand-written config file

LoadNames == {<<"A">>, <<"x251">>}

\* the lines a hand-written file is made of
LoadLines ==
    { ScalarLine(kName, S(<<"A">>)),
      ScalarLine(kType, S(<<"exe">>)),
      <<"#", SP, "note">>,
      <<"0xff">>,
      JsonLine(kEnv, M(<< <<<<"K">>, <<"v">>>> >>)),
      kEnv \o <<SP, "=", SP, "{", "oops">>,
      kEnv \o <<SP, "=", SP, "oops">>,
      JsonLine(kMounts, L(<< <<"/d", ":", "/c">> >>)),
      kMounts \o <<SP, "=", SP, "[", DQ, "/d">>,
      kMounts \o <<SP, "=", SP, "zz">> }

LoadFiles == UNION {[1..n -> LoadLines] : n \in 0..MaxLines}

\* the user leaves <app_name>.conf with the lines of `file`
LoadEdit(p, app_name, file) ==
    /\ inv[p].cmd = "idle"
    /\ ~TooLong(app_name)
    /\ confs' = [n \in (DOMAIN confs) \cup {app_name} |->
                    IF n = app_name THEN file ELSE confs[n]]
    /\ UNCHANGED <<files, registry, session, inv, ncmds>>

\* load_config(app_name) is called
LoadCall(p, app_name, build) ==
    /\ inv[p].cmd = "idle"
    /\ LET r == load_call(confs, app_name, build)
       IN  inv' = [inv EXCEPT ![p] =
                [Idle EXCEPT !.cmd = "load", !.pc = "Loaded", !.app_name = app_name,
                             !.config = r.val, !.escaped = r.raised]]
    /\ UNCHANGED <<files, confs, registry, session, ncmds>>

\* the caller is done with the record
LoadReturn(p) ==
    /\ inv[p].cmd = "load"
    /\ inv' = [inv EXCEPT ![p] = Idle]
    /\ UNCHANGED <<files, confs, registry, session, ncmds>>

LoadNext ==
    \/ \E n \in LoadNames, f \in LoadFiles : LoadEdit(1, n, f)
    \/ \E n \in LoadNames, b \in ExistsBuilds : LoadCall(1, n, b)
    \/ LoadReturn(1)

SpecLoad == Init /\ [][LoadNext]_vars

\* C11 (as claimed): load_config returns a record and raises nothing, for
\* every name and every content of the file; with no file for the name the
\* record is the default one: kind unknown, empty path, empty environment,
\* network nat, empty mounts, empty arguments, working directory and
\* description.
C11_LoadNeverFails ==
    \A p \in Procs :
        inv[p].cmd = "load" =>
            /\ ~inv[p].escaped
            /\ inv[p].app_name \notin DOMAIN confs =>
                  inv[p].config =
                      (kName :> S(inv[p].app_name)) @@ (kType :> S(<<"unknown">>))
                      @@ (kPath :> S(<<>>)) @@ (kEnv :> M(<<>>)) @@ (kNet :> S(<<"nat">>))
                      @@ (kMounts :> L(<<>>)) @@ (kArgs :> S(<<>>)) @@ (kWd :> S(<<>>))
                      @@ (kDesc :> S(<<>>))

\* the text v is not the JSON text of the structured field `key`
Malformed(key, v) ==
    LET js == Loads(v)
    IN  ~js.ok \/ js.val.t # (IF key = kEnv THEN "map" ELSE "list")

\* the structured fields the file gives a malformed value
MalformedKeys(file) ==
    {key \in {kEnv, kMounts} :
        StoredJson(file, key) # <<>> /\ Malformed(key, StoredJson(file, key))}

\* C12 (as claimed): when the file gives environment or mounts a malformed
\* value, the loaded record holds the empty mapping, respectively the empty
\* list, for that field, and holds every other field of the file with the
\* value the file gives it.
C12_MalformedDegrades ==
    \A p \in Procs :
        (/\ inv[p].cmd = "load" /\ ~inv[p].escaped
         /\ inv[p].app_name \in DOMAIN confs
         /\ ~Undecodable(confs[inv[p].app_name])
         /\ MalformedKeys(confs[inv[p].app_name]) # {})
        => LET file == confs[inv[p].app_name]
               config == inv[p].config
           IN  /\ \A key \in MalformedKeys(file) :
                     /\ Has(config, key)
                     /\ config[key] = (IF key = kEnv THEN M(<<>>) ELSE L(<<>>))
               /\ \A key \in {kName, kType} :
                     StoredScalar(file, key) # <<>> =>
                        Has(config, key) /\ config[key] = S(StoredScalar(file, key))

----------------------------------------------------------------------------
(* detect_type on its own: one file of every content under every name      *)

DetectExts ==
    {".exe", ".EXE", ".msi", ".Msi", ".apk", ".APK", ".dmg", ".DMG", ".app", ".App",
     ".pkg", ".PKG", ".deb", ".Deb", ".rpm", ".RPM", ".sh", ".SH", ".bash", ".Bash",
     ".txt", ".TXT", ".bin"}

\* /h/d with each extension, and /h/d itself
DetectPaths == {<<"/h/", "d", e>> : e \in DetectExts} \cup {<<"/h/", "d">>}

\* what may be found at the path
DetectEntries ==
    {File(MZ), File(<<"M", "Z">>), File(ELF \o <<"0x02">>), File(<<"0x7f", "E", "L">>),
     File(<<"P", "K", "0x03", "0x04">>), File(<<>>), Bundle("none"), Bundle("dir")}

\* the path holds `entry`
DetectPlace(p, path, entry) ==
    /\ inv[p].cmd = "idle"
    /\ files' = [f \in (DOMAIN HostFiles) \cup {path} |->
                    IF f = path THEN entry ELSE HostFiles[f]]
    /\ UNCHANGED <<confs, registry, session, inv, ncmds>>

\* nothing is at the paths
DetectClear(p) ==
    /\ inv[p].cmd = "idle"
    /\ files' = HostFiles
    /\ UNCHANGED <<confs, registry, session, inv, ncmds>>

\* detect_type(path) is called
DetectCall(p, path) ==
    /\ inv[p].cmd = "idle"
    /\ inv' = [inv EXCEPT ![p] =
                  [Idle EXCEPT !.cmd = "detect", !.pc = "Detected", !.target_path = path,
                               !.file_type = detect_type(files, path)]]
    /\ UNCHANGED <<files, confs, registry, session, ncmds>>

DetectReturn(p) ==
    /\ inv[p].cmd = "detect"
    /\ inv' = [inv EXCEPT ![p] = Idle]
    /\ UNCHANGED <<files, confs, registry, session, ncmds>>

DetectNext ==
    \/ \E path \in DetectPaths, e \in DetectEntries : DetectPlace(1, path, e)
    \/ DetectClear(1)
    \/ \E path \in DetectPaths : DetectCall(1, path)
    \/ DetectReturn(1)

SpecDetect == Init /\ [][DetectNext]_vars

\* the supported table as the specification gives it, upper and lower case
KindOfExt ==
    [e \in DetectExts \ {".txt", ".TXT", ".bin"} |->
        CASE e \in {".exe", ".EXE", ".msi", ".Msi"} -> <<"exe">>
          [] e \in {".apk", ".APK"} -> <<"apk">>
          [] e \in {".dmg", ".DMG", ".app", ".App", ".pkg", ".PKG"} -> <<"macos">>
          [] e \in {".deb", ".Deb", ".rpm", ".RPM"} -> <<"linux">>
          [] OTHER -> <<"script">>]

LastTok(path) == path[Len(path)]

\* C13: for a path whose extension is in the supported table, in either
\* case, detect_type returns the kind of the table, whatever is stored at the
\* path and whether or not anything is.
C13_ExtensionWins ==
    \A p \in Procs :
        (inv[p].cmd = "detect" /\ LastTok(inv[p].target_path) \in DOMAIN KindOfExt)
        => inv[p].file_type = S(KindOfExt[LastTok(inv[p].target_path)])

\* a file that starts with MZ, named with an upper-case .SH, is detected as a script
C13_Witness ==
    \E p \in Procs :
        /\ inv[p].cmd = "detect"
        /\ inv[p].target_path = <<"/h/", "d", ".SH">>
        /\ inv[p].target_path \in DOMAIN files
        /\ files[inv[p].target_path] = File(MZ)
        /\ inv[p].file_type = S(<<"script">>)

\* the file at the path can be opened and read
Readable(fs, path) == path \in DOMAIN fs /\ ~fs[path].dir

\* C14: for a path with no extension of the table, detect_type returns exe
\* when the file starts with MZ, linux when it starts with the four bytes
\* 0x7f E L F, and None otherwise; a path that is missing or is a directory
\* gives None too, and no exception leaves detect_type.
C14_MagicSniff ==
    \A p \in Procs :
        (inv[p].cmd = "detect" /\ LastTok(inv[p].target_path) \notin DOMAIN KindOfExt)
        => LET path == inv[p].target_path
               hdr == IF Readable(files, path) THEN files[path].hdr ELSE <<>>
           IN  /\ inv[p].file_type # Raised
               /\ inv[p].file_type =
                     (IF Len(hdr) >= 2 /\ hdr[1] = "M" /\ hdr[2] = "Z" THEN S(<<"exe">>)
                      ELSE IF Len(hdr) >= 4 /\ hdr[1] = "0x7f" /\ hdr[2] = "E"
                                /\ hdr[3] = "L" /\ hdr[4] = "F" THEN S(<<"linux">>)
                      ELSE None)

\* detect_type has been called on a directory whose name has no extension
C14_Witness ==
    \E p \in Procs :
        /\ inv[p].cmd = "detect"
        /\ inv[p].target_path = <<"/h/", "d">>
        /\ inv[p].target_path \in DOMAIN files
        /\ files[inv[p].target_path].dir
        /\ inv[p].file_type = None

----------------------------------------------------------------------------
(* Further properties of cmd_open                                          *)

\* the position of the first call of `tool` in a call log, 0 when there is none
CallAt(calls, tool) ==
    LET at == {i \in 1..Len(calls) : calls[i][1] = tool}
    IN  IF at = {} THEN 0 ELSE MinOf(at)

\* the status query of the invocation answered that the container is not running
SawNotRunning(l) ==
    /\ l.cmd = "open" /\ IsExe(l) /\ l.calls # <<>>
    /\ l.calls[1][1] = "lxc_list_status"
    /\ l.calls[1][2] \in {"notrunning", "nonzero"}

\* every step of `steps` was called and ended well before the first call of `tool`
DoneBefore(calls, steps, tool) ==
    CallAt(calls, tool) # 0 =>
        \A s \in steps :
            /\ CallAt(calls, s) # 0
            /\ CallAt(calls, s) < CallAt(calls, tool)
            /\ calls[CallAt(calls, s)][2] = "ok"

\* a step of `steps` did not end well
FailedIn(calls, steps) ==
    \E i \in 1..Len(calls) : calls[i][1] \in steps /\ calls[i][2] # "ok"

\* with the container not running: `steps` are done before the payload is
\* copied and before the process is spawned; once one of them fails nothing
\* is copied or spawned, the failure is reported and nothing is saved
GatedBy(l, steps) ==
    /\ DoneBefore(l.calls, steps, "lxc_file_push")
    /\ DoneBefore(l.calls, steps, "spawn_wine")
    /\ FailedIn(l.calls, steps) =>
          /\ CallAt(l.calls, "lxc_file_push") = 0
          /\ CallAt(l.calls, "spawn_wine") = 0
          /\ l.pc = "Failed" /\ l.reported /\ ~l.saved

\* a failed open leaves every config file as it is
FailedKeepsConfs ==
    \A p \in Procs : (inv[p].cmd = "open" /\ inv[p].pc = "Failed") => confs' = confs

\* C15 (as claimed): whenever the container is found not running, the
\* provisioning steps all run and end well before the payload is copied and
\* before the process is spawned, and a failed provisioning step ends the
\* open in a reported failure with nothing copied, spawned or saved.
C15_ProvisionedFirst ==
    \A p \in Procs :
        SawNotRunning(inv[p]) => GatedBy(inv[p], Range(SetupSteps))

\* what brings the container up: `lxc start` when the existence query finds
\* the container, the provisioning steps when it does not
BringUp(l) ==
    IF Len(l.calls) >= 2 /\ l.calls[2] = <<"lxc_list_exists", "exists">>
    THEN {"lxc_start"}
    ELSE Range(SetupSteps)

C15_State ==
    \A p \in Procs : SawNotRunning(inv[p]) => GatedBy(inv[p], BringUp(inv[p]))

\* C15 (amended): whenever the container is found not running it is brought
\* up first, by provisioning when it does not exist and by `lxc start` alone
\* when it exists; the bring-up ends well before the payload is copied and
\* before the process is spawned, and when it fails nothing is copied or
\* spawned, open reports the failure and the persisted record is unchanged.
C15_BroughtUpFirst == [](C15_State) /\ [][FailedKeepsConfs]_vars

\* an exe was launched after the container was found absent and provisioned
C15_Witness ==
    \E p \in Procs :
        /\ SawNotRunning(inv[p])
        /\ inv[p].pc = "Succeeded"
        /\ CallAt(inv[p].calls, "lxc_launch") # 0
        /\ CallAt(inv[p].calls, "spawn_wine") # 0

----------------------------------------------------------------------------
(* Two terminal sessions: the commands of one run between the steps of the *)
(* other.  Nothing in apollo.py takes a lock or checks a file for changes, *)
(* so every step of a command is enabled whatever the other session does.  *)

NextConc == \E p \in Procs : Step(p)

SpecConc == Init /\ [][NextConc]_vars

\* no write of an open or of the editor waits for the other terminal
\* session: whatever the other one is doing, the launch that appends to the
\* registry and the save of the record can be taken
C16_NoLock ==
    \A p \in Procs :
        /\ (inv[p].cmd = "open" /\ inv[p].pc = "Launching") => ENABLED OpenLaunch(p)
        /\ (inv[p].cmd = "open" /\ inv[p].pc = "Succeeded" /\ ~inv[p].saved)
              => ENABLED OpenFinish(p)
        /\ (inv[p].cmd = "conf" /\ inv[p].pc = "Menu") => ENABLED EditSave(p)

\* a save writes the copy the saving command holds over whatever the file
\* holds by then, and a launch appends to the registry as it stands by then
C16_LastWriterWins ==
    \A p \in Procs :
        /\ ((\/ inv[p].cmd = "open" /\ ~inv[p].saved /\ inv'[p].cmd = "open" /\ inv'[p].saved
             \/ inv[p].cmd = "conf" /\ inv'[p].cmd = "idle" /\ confs' # confs)
            => /\ inv[p].app_name \in DOMAIN confs'
               /\ confs'[inv[p].app_name] = Serialize(inv[p].app_name, inv[p].config))
        /\ Launched(p) => IsPrefix(registry, registry')

\* C16: two invocations on the same application are not coordinated: no step
\* of one waits for the other, every save overwrites the file with the
\* saver's own copy, and every registry write appends to the registry as it
\* stands; the update one invocation saved can so be lost to the other.
C16_Uncoordinated == [](C16_NoLock) /\ [][C16_LastWriterWins]_vars

\* a lost update: two opens of the same application started from the same
\* version of its file, both have saved, the record p saved differed from
\* that version, and the file holds the record of q without the update of p
C16_Witness ==
    \E p, q \in Procs :
        /\ p # q
        /\ inv[p].cmd = "open" /\ inv[p].saved
        /\ inv[q].cmd = "open" /\ inv[q].saved
        /\ inv[p].app_name = inv[q].app_name
        /\ inv[p].base = inv[q].base
        /\ inv[p].base.found
        /\ Serialize(inv[p].app_name, inv[p].config) # inv[p].base.text
        /\ confs[inv[p].app_name] = Serialize(inv[q].app_name, inv[q].config)
        /\ StoredScalar(confs[inv[p].app_name], kPath) # Fmt(inv[p].config[kPath])

----------------------------------------------------------------------------
(* Dependencies and bundles                                                *)

C17_State ==
    \A p \in Procs :
        (inv[p].cmd = "open" /\ inv[p].missing # {})
        => /\ inv[p].pc = "Failed" /\ inv[p].reported
           /\ inv[p].trail = <<"Failed">>
           /\ inv[p].app_name = <<>> /\ inv[p].file_type = None
           /\ inv[p].calls = <<>> /\ ~inv[p].saved

C17_Step ==
    \A p \in Procs :
        (inv'[p].cmd = "open" /\ inv'[p].missing # {})
        => confs' = confs /\ registry' = registry /\ session' = session

\* C17: an open that finds any of lxc, wine, darling, waydroid, curl missing
\* ends in a reported failure before the target is resolved, whatever the
\* target: no kind is detected, no adapter or process is started, and neither
\* a config file nor the registry is written.
C17_AllDepsOrNothing == [](C17_State) /\ [][C17_Step]_vars

\* an open of a native ELF binary was refused because darling is missing
C17_Witness ==
    \E p \in Procs :
        /\ inv[p].cmd = "open" /\ inv[p].pc = "Failed"
        /\ inv[p].target = pQuote
        /\ detect_type(files, pQuote) = S(<<"linux">>)
        /\ inv[p].missing = {"darling"}

\* the invocation runs a .app bundle directory that holds no executable file
EmptyBundle(l) ==
    /\ l.cmd = "open" /\ l.file_type = S(<<"macos">>)
    /\ LastTok(l.target_path) \in {".app", ".App"}
    /\ l.target_path \in DOMAIN files
    /\ files[l.target_path].dir /\ ~files[l.target_path].exe

C18_State ==
    \A p \in Procs :
        EmptyBundle(inv[p])
        => /\ inv[p].calls = <<>>
           /\ inv[p].pc # "Succeeded" /\ ~inv[p].saved
           /\ inv[p].pc \notin {"KindKnown", "Launching"} =>
                 inv[p].pc = "Failed" /\ inv[p].reported

C18_Step ==
    \A p \in Procs : EmptyBundle(inv[p]) => confs' = confs /\ registry' = registry

\* C18 (as claimed): for a .app bundle directory with no executable file
\* under Contents/MacOS the macOS adapter spawns nothing and does not report
\* success; open ends in a reported launch failure and writes no record.
C18_EmptyBundleFails == [](C18_State) /\ [][C18_Step]_vars

====
